---------------------------- MODULE Spec2Model ----------------------------
(***************************************************************************)
(* A model of the httpsig verifier: verifier.Verify and                    *)
(* verifier.ResolveKey (src/unnamed/part_000) and the construction code of *)
(* src/httpsig.go.                                                         *)
(*                                                                         *)
(* Strings are sequences of symbols.  The structural characters the code   *)
(* looks at (",", " ", "=", ":", "(", ")", ";", the double quote) are      *)
(* symbols of their own; a run of other characters (a label, a key id, a   *)
(* header name) is one symbol.  Byte strings are sequences of symbols too. *)
(***************************************************************************)
EXTENDS Integers, Sequences, FiniteSets, TLC

\* ------------------------------------------------------------------------
\* Bounds of the model

\* the wall clock runs over 0..MaxTime
MaxTime == 1

\* The callers of one verifier.  The first draws its calls from all the
\* messages; the second runs beside it and draws from the calls that reach
\* the resolver and the store of resolved keys, the only state calls share,
\* and a message whose first signature is corrupted.
Procs == {"first", "second"}

\* ------------------------------------------------------------------------
\* Go's strings package, as verifier.Verify uses it

DQ == "\""

\* does sep occur in s at position i
HasAt(s, sep, i) ==
    /\ i >= 1
    /\ i + Len(sep) - 1 <= Len(s)
    /\ \A j \in 1..Len(sep) : s[i + j - 1] = sep[j]

RECURSIVE IndexFrom(_, _, _)
\* the first position from i on where sep occurs in s; 0 when there is none
IndexFrom(s, sep, i) ==
    IF i + Len(sep) - 1 > Len(s) THEN 0
    ELSE IF HasAt(s, sep, i) THEN i
    ELSE IndexFrom(s, sep, i + 1)

\* strings.Index, 1-based; 0 when sep does not occur
Index(s, sep) == IndexFrom(s, sep, 1)

RECURSIVE Split(_, _)
\* strings.Split(s, sep) for a non-empty sep
Split(s, sep) ==
    LET i == Index(s, sep) IN
    IF i = 0 THEN <<s>>
    ELSE <<SubSeq(s, 1, i - 1)>> \o Split(SubSeq(s, i + Len(sep), Len(s)), sep)

\* strings.SplitN(s, sep, 2)
SplitN2(s, sep) ==
    LET i == Index(s, sep) IN
    IF i = 0 THEN <<s>>
    ELSE <<SubSeq(s, 1, i - 1), SubSeq(s, i + Len(sep), Len(s))>>

\* strings.Trim(s, cutset): all leading and trailing symbols of cutset removed
Trim(s, cutset) ==
    LET keep == {i \in 1..Len(s) : s[i] \notin cutset} IN
    IF keep = {} THEN <<>>
    ELSE LET lo == CHOOSE i \in keep : \A j \in keep : i <= j
             hi == CHOOSE i \in keep : \A j \in keep : j <= i
         IN SubSeq(s, lo, hi)

RECURSIVE JoinWith(_, _)
\* strings.Join
JoinWith(parts, sep) ==
    IF parts = <<>> THEN <<>>
    ELSE IF Len(parts) = 1 THEN parts[1]
    ELSE parts[1] \o sep \o JoinWith(Tail(parts), sep)

CommaSpace == <<",", " ">>

\* ------------------------------------------------------------------------
\* encoding/base64: one base64 symbol per byte symbol

\* the byte symbols signatures are made of
Keys == {"KS", "K1", "K2"}
TextSymbols ==
    {DQ, ":", " ", "\n", "(", ")", ";", "=", ",", "/", "?",
     "@method", "@path", "@query", "@authority", "@signature-params",
     "host", "date", "x-missing", "GET", "a", "example.com", "today",
     "keyid", "alg", "expires", "created", "nonce",
     "ks", "kd", "ku", "hmac-sha256", "ecdsa-p256-sha256",
     "0", "1", "2", "3", "soon"}
ByteSymbols == Keys \cup TextSymbols \cup {"junk"}

B64Char(b) == "b64." \o b
B64Alphabet == {B64Char(b) : b \in ByteSymbols}

\* base64.StdEncoding.EncodeToString
B64Encode(bytes) == [i \in 1..Len(bytes) |-> B64Char(bytes[i])]

B64Valid(s) == \A i \in 1..Len(s) : s[i] \in B64Alphabet

\* base64.StdEncoding.DecodeString; defined where B64Valid holds
B64Decode(s) ==
    [i \in 1..Len(s) |-> CHOOSE b \in ByteSymbols : B64Char(b) = s[i]]


\* ------------------------------------------------------------------------
\* The Signature-Input parser (parseSignatureInput; its file is not among
\* the sources, it is modelled from section 4.2 of the specification)

IsNumeric(t) == t \in {"0", "1", "2", "3"}
Atoi(t) == CASE t = "0" -> 0 [] t = "1" -> 1 [] t = "2" -> 2 [] OTHER -> 3

Structural == {DQ, ":", " ", "(", ")", ";", "=", ","}

\* a quoted string holding one symbol
IsQuoted(v) == Len(v) = 3 /\ v[1] = DQ /\ v[3] = DQ /\ v[2] \notin Structural

ParseErr ==
    [err |-> TRUE, keyID |-> "", alg |-> "", items |-> <<>>,
     hasCreated |-> FALSE, created |-> 0, hasExpires |-> FALSE, expires |-> 0]

\* the key=value parameters after the item list, as <<key, value>> pairs
ParamPairs(rest) ==
    IF rest = <<>> THEN <<>>
    ELSE [i \in 1..Len(Split(Tail(rest), <<";">>)) |->
            SplitN2(Split(Tail(rest), <<";">>)[i], <<"=">>)]

\* the item list between the parentheses, as quoted strings
ItemStrings(inner) == IF inner = <<>> THEN <<>> ELSE Split(inner, <<" ">>)

\* the record of a value whose item list and parameters are split
ParseSplit(itemStrs, rest, kvs) ==
    LET At(k) == {i \in 1..Len(kvs) : kvs[i][1] = <<k>>}
        Val(k) == kvs[CHOOSE i \in At(k) : TRUE][2]
        strOk(k) == At(k) = {} \/ IsQuoted(Val(k))
        numOk(k) == At(k) = {} \/ (Len(Val(k)) = 1 /\ IsNumeric(Val(k)[1]))
    IN
    IF \/ itemStrs = <<>>
       \/ \E i \in 1..Len(itemStrs) : ~IsQuoted(itemStrs[i])
       \/ (rest # <<>> /\ rest[1] # ";")
       \/ \E i \in 1..Len(kvs) : Len(kvs[i]) # 2 \/ Len(kvs[i][1]) # 1
    THEN ParseErr
    ELSE IF \/ \E k \in {"keyid", "alg", "created", "expires"} : Cardinality(At(k)) > 1
            \/ At("keyid") = {}
            \/ ~strOk("keyid") \/ ~strOk("alg")
            \/ ~numOk("created") \/ ~numOk("expires")
    THEN ParseErr
    ELSE [err |-> FALSE,
          keyID |-> Val("keyid")[2],
          alg |-> IF At("alg") = {} THEN "" ELSE Val("alg")[2],
          items |-> [i \in 1..Len(itemStrs) |-> itemStrs[i][2]],
          hasCreated |-> At("created") # {},
          created |-> IF At("created") = {} THEN 0 ELSE Atoi(Val("created")[1]),
          hasExpires |-> At("expires") # {},
          expires |-> IF At("expires") = {} THEN 0 ELSE Atoi(Val("expires")[1])]

\* the value whose item list closes at position r
ParseAt(s, r) ==
    IF Len(s) < 2 \/ s[1] # "(" \/ r = 0 THEN ParseErr
    ELSE ParseSplit(ItemStrings(SubSeq(s, 2, r - 1)), SubSeq(s, r + 1, Len(s)),
                    ParamPairs(SubSeq(s, r + 1, Len(s))))

parseSignatureInput(s) == ParseAt(s, Index(s, <<")">>))

\* ------------------------------------------------------------------------
\* The canonicalizer (canonicalizeMethod, ...; not among the sources,
\* modelled from section 4.1 of the specification).  A result is
\* [err, line]: the canonical line appended to the buffer, or a failure.

ToUpper(t) == IF t = "get" THEN "GET" ELSE t
ToLower(t) == CASE t = "Host" -> "host" [] t = "Date" -> "date" [] OTHER -> t
\* textproto.CanonicalMIMEHeaderKey
CanonicalKey(t) == CASE t = "host" -> "Host" [] t = "date" -> "Date" [] OTHER -> t

CanonLine(name, value) == <<DQ, ToLower(name), DQ, ":", " ">> \o value \o <<"\n">>
CanonFail == [err |-> TRUE, line |-> <<>>]
CanonOk(name, value) == [err |-> FALSE, line |-> CanonLine(name, value)]

canonicalizeMethod(method) == CanonOk("@method", <<ToUpper(method)>>)

canonicalizePath(path) ==
    IF path = <<>> \/ path[1] # "/" THEN CanonFail ELSE CanonOk("@path", path)

canonicalizeQuery(rawQuery) == CanonOk("@query", <<"?">> \o rawQuery)

canonicalizeAuthority(authority) ==
    IF authority = <<>> THEN CanonFail ELSE CanonOk("@authority", authority)

canonicalizeHeader(name, header) ==
    LET k == CanonicalKey(name) IN
    IF k \notin DOMAIN header \/ header[k] = <<>> THEN CanonFail
    ELSE CanonOk(name, JoinWith(header[k], CommaSpace))

\* the switch of verifier.Verify over one component identifier
CanonicalizeItem(h, msg) ==
    CASE h = "@method" -> canonicalizeMethod(msg.Method)
      [] h = "@path" -> canonicalizePath(msg.Path)
      [] h = "@query" -> canonicalizeQuery(msg.RawQuery)
      [] h = "@authority" -> canonicalizeAuthority(msg.Authority)
      [] OTHER -> canonicalizeHeader(h, msg.Header)

\* a buffer in which each line goes behind the lines of the later items
AppendLineBehind(c, rest) ==
    IF c.err \/ rest.err THEN [err |-> TRUE, buf |-> <<>>]
    ELSE [err |-> FALSE, buf |-> rest.buf \o c.line]

\* the buffer after a line is appended to it, or the failure
AppendLine(c, rest) ==
    IF c.err \/ rest.err THEN [err |-> TRUE, buf |-> <<>>]
    ELSE [err |-> FALSE, buf |-> c.line \o rest.buf]

RECURSIVE CanonicalizeAll(_, _)
\* the loop over params.items: [err, buf], failing at the first failure
CanonicalizeAll(items, msg) ==
    IF items = <<>> THEN [err |-> FALSE, buf |-> <<>>]
    ELSE AppendLine(CanonicalizeItem(Head(items), msg),
                    CanonicalizeAll(Tail(items), msg))

\* fmt.Fprintf(&b, "\"@signature-params\": %s", paramsRaw)
SignatureParamsLine(paramsRaw) ==
    <<DQ, "@signature-params", DQ, ":", " ">> \o paramsRaw

\* the buffer with the trailer line appended
WithTrailer(c, paramsRaw) ==
    IF c.err THEN c
    ELSE [err |-> FALSE, buf |-> c.buf \o SignatureParamsLine(paramsRaw)]

\* the buffer verifier.Verify writes to the verifying operation
SigningBase(items, msg, paramsRaw) ==
    WithTrailer(CanonicalizeAll(items, msg), paramsRaw)

\* http.Header.Get: the first value, or the empty string
HeaderGet(header, name) ==
    IF name \in DOMAIN header /\ header[name] # <<>> THEN header[name][1] ELSE <<>>

\* ------------------------------------------------------------------------
\* Key entries and verifying operations

KeyIds == {"ks", "kd", "ku"}
\* the key ids the dynamic resolver can come to know
DynIds == {"kd"}
NilKey == "nil"

\* verHolder{}: the zero value, whose factory is nil
ZeroHolder == [alg |-> "", key |-> NilKey]

verifyRsaPssSha512(pk) == [alg |-> "rsa-pss-sha512", key |-> pk]
verifyEccP256(pk) == [alg |-> "ecdsa-p256-sha256", key |-> pk]
verifyHmacSha256(secret) == [alg |-> "hmac-sha256", key |-> secret]

\* the holder ResolveKey builds around a key the resolver returned
DynamicHolder(key) == [alg |-> "", key |-> key]

\* an ideal signature scheme: the only signature key accepts over data
Sign(key, data) == <<key>> \o data

\* a verify closure that accepts whatever it is given
KeyVerifyAny(key, written, sig) == TRUE

\* the verify closure of a verImpl: the key's check of sig over the bytes
\* written to the operation
KeyVerify(key, written, sig) == sig = Sign(key, written)

\* an accumulator every live operation writes to
SharedAccumulator(heap) == 1

\* The hash, MAC or buffer a factory allocates when it is invoked: an
\* accumulator no live operation holds.  heap maps the accumulators in use
\* to the bytes written to them.
NewAccumulator(heap) ==
    CHOOSE a \in 1..(Cardinality(DOMAIN heap) + 1) :
        /\ a \notin DOMAIN heap
        /\ \A b \in 1..(a - 1) : b \in DOMAIN heap

\* ver.verifier(): an operation over the accumulator acc
NewOperation(holder, acc) == [key |-> holder.key, acc |-> acc, live |-> TRUE]
NoOperation == [key |-> NilKey, acc |-> 0, live |-> FALSE]

\* Write(bytes) on the accumulator acc: the bytes are added to what it
\* holds; an accumulator that was just allocated holds nothing
WriteAccumulator(heap, acc, bytes) ==
    [a \in DOMAIN heap \cup {acc} |->
        (IF a \in DOMAIN heap THEN heap[a] ELSE <<>>)
            \o (IF a = acc THEN bytes ELSE <<>>)]

\* the accumulators some operation in fr still refers to; the others are
\* garbage
Collect(heap, fr) ==
    [a \in {b \in DOMAIN heap :
               \E q \in DOMAIN fr : fr[q].verifier.live /\ fr[q].verifier.acc = b}
        |-> heap[a]]

\* ------------------------------------------------------------------------
\* The messages verified.  An entry e describes one signature of a message:
\* its label, components, key id, declared algorithm, expires parameter and
\* the key that signed it.

ItemsA == <<"@method", "host">>
ItemsRev == <<"host", "@method">>
ItemsMissing == <<"@method", "x-missing">>

BaseHeader == [h \in {"Host", "Date"} |->
                 IF h = "Host" THEN <<<<"example.com">>>> ELSE <<<<"today">>>>]
BaseMsg == [Method |-> "get", Path |-> <<"/", "a">>, RawQuery |-> <<>>,
            Authority |-> <<"example.com">>, Header |-> BaseHeader]

E(label, items, keyid, alg, exp, signedBy) ==
    [label |-> label, items |-> items, keyid |-> keyid, alg |-> alg,
     exp |-> exp, signer |-> signedBy]

\* the Signature-Input value of an entry
Params(e) ==
    <<"(">> \o JoinWith([i \in 1..Len(e.items) |-> <<DQ, e.items[i], DQ>>], <<" ">>)
      \o <<")", ";", "keyid", "=", DQ, e.keyid, DQ>>
      \o (IF e.alg = "" THEN <<>> ELSE <<";", "alg", "=", DQ, e.alg, DQ>>)
      \o (IF e.exp = "" THEN <<>> ELSE <<";", "expires", "=", e.exp>>)

In(e) == <<e.label, "=">> \o Params(e)
SignedBytes(e) == Sign(e.signer, SigningBase(e.items, BaseMsg, Params(e)).buf)
Sg(e) == <<e.label, "=", ":">> \o B64Encode(SignedBytes(e)) \o <<":">>
SgBare(e) == <<e.label, "=">> \o B64Encode(SignedBytes(e))
SgRaw(label, value) == <<label, "=">> \o value
NotBase64 == <<":", "!", ":">>

Msg(ins, sgs) ==
    [BaseMsg EXCEPT !.Header =
        [h \in {"Host", "Date", "Signature", "Signature-Input"} |->
            CASE h = "Signature" ->
                    IF sgs = <<>> THEN <<>> ELSE <<JoinWith(sgs, CommaSpace)>>
              [] h = "Signature-Input" ->
                    IF ins = <<>> THEN <<>> ELSE <<JoinWith(ins, CommaSpace)>>
              [] OTHER -> BaseHeader[h]]]

eKs == E("sig1", ItemsA, "ks", "hmac-sha256", "", "KS")
eKsExp == E("sig1", ItemsA, "ks", "hmac-sha256", "1", "KS")
eKsEc == E("sig1", ItemsA, "ks", "ecdsa-p256-sha256", "", "KS")
eKsNoAlg == E("sig1", ItemsA, "ks", "", "", "KS")
eKsBad == E("sig1", ItemsA, "ks", "hmac-sha256", "", "junk")
eKs2 == E("sig2", ItemsA, "ks", "hmac-sha256", "", "KS")
eKu == E("sig1", ItemsA, "ku", "hmac-sha256", "", "K2")
eKd == E("sig1", ItemsA, "kd", "", "", "K1")
eKdAlg == E("sig1", ItemsA, "kd", "hmac-sha256", "1", "K1")
eKd2 == E("sig2", ItemsA, "kd", "", "", "K1")
eMiss == E("sig1", ItemsMissing, "ks", "hmac-sha256", "", "KS")
eKsBadExp == E("sig1", ItemsA, "ks", "hmac-sha256", "1", "junk")
eKsRev == E("sig1", ItemsRev, "ks", "hmac-sha256", "", "KS")

\* the Signature value of a signer that takes the lines in the order of
\* `items` and the parameters of e for the trailer
SgOrdered(e, items) ==
    <<e.label, "=", ":">>
        \o B64Encode(Sign(e.signer, SigningBase(items, BaseMsg, Params(e)).buf))
        \o <<":">>

Messages ==
    << Msg(<<In(eKs)>>, <<>>),
       Msg(<<>>, <<Sg(eKs)>>),
       Msg(<<In(eKs)>>, <<Sg(eKs), Sg(eKs2)>>),
       Msg(<<In(eKs)>>, <<Sg(eKs)>>),
       Msg(<<In(eKsExp)>>, <<Sg(eKsExp)>>),
       Msg(<<In(eKsEc)>>, <<Sg(eKsEc)>>),
       Msg(<<In(eKsEc)>>, <<SgRaw("sig1", NotBase64)>>),
       Msg(<<In(eKu), In(eKs2)>>, <<Sg(eKu), Sg(eKs2)>>),
       Msg(<<In(eKu), In(eKs2)>>, <<SgRaw("sig1", NotBase64), Sg(eKs2)>>),
       Msg(<<In(eKsBad), In(eKd2)>>, <<Sg(eKsBad), Sg(eKd2)>>),
       Msg(<<In(eKd)>>, <<Sg(eKd)>>),
       Msg(<<In(eKdAlg)>>, <<Sg(eKdAlg)>>),
       Msg(<< <<"sig1", "=", "(", ")", ";", "keyid", "=", DQ, "ks", DQ>> >>, <<Sg(eKs)>>),
       Msg(<< <<"sig1">> >>, <<Sg(eKs)>>),
       Msg(<<In(eKs)>>, <<SgBare(eKs)>>),
       Msg(<<In(eKs)>>, <<Sg(eKs2)>>),
       Msg(<<In(eKs)>>, <<SgRaw("sig1", NotBase64)>>),
       Msg(<<In(eMiss)>>, <<Sg(eMiss)>>),
       Msg(<<In(eKsNoAlg)>>, <<Sg(eKsNoAlg)>>),
       Msg(<<In(eKu)>>, <<Sg(eKu)>>),
       Msg(<<In(eKu), In(eKs2)>>, <<SgRaw("sig1", <<>>), Sg(eKs2)>>),
       Msg(<<In(eKsBadExp)>>, <<Sg(eKsBadExp)>>),
       Msg(<<In(eMiss)>>, <<SgRaw("sig1", NotBase64)>>),
       Msg(<<In(eKu)>>, <<Sg(eKs2)>>),
       Msg(<<In(eKsRev)>>, <<SgOrdered(eKsRev, ItemsA)>>) >>

MsgIds == 1..Len(Messages)

Min(S) == CHOOSE x \in S : \A y \in S : x <= y

\* the messages whose first candidate names a dynamically resolved key id
DynMsgIds ==
    {m \in MsgIds :
        LET v == Messages[m].Header["Signature-Input"] IN
        /\ v # <<>>
        /\ LET c == SplitN2(Split(v[1], CommaSpace)[1], <<"=">>) IN
           /\ Len(c) = 2
           /\ parseSignatureInput(c[2]).keyID \in DynIds}

\* the messages of several entries whose first Signature value is not base64
CorruptFirstIds ==
    {m \in MsgIds :
        LET sg == Split(HeaderGet(Messages[m].Header, "Signature"), CommaSpace)
            first == SplitN2(sg[1], <<"=">>)
        IN /\ Len(sg) > 1
           /\ Len(sg) = Len(Split(HeaderGet(Messages[m].Header, "Signature-Input"),
                                   CommaSpace))
           /\ Len(first) = 2
           /\ ~B64Valid(Trim(first[2], {":"}))}

\* the messages the second caller draws from
SideMsgIds == {Min(DynMsgIds), Min(CorruptFirstIds)}

\* the messages and key ids a caller draws its calls from
MsgsOf(p) == IF p = "first" THEN MsgIds ELSE SideMsgIds
IdsOf(p) == IF p = "first" THEN KeyIds ELSE DynIds

\* ------------------------------------------------------------------------
\* State

VARIABLES
    keys,        \* verifier.keys: the sync.Map, key id -> verHolder
    hasResolver, \* verifier.resolver != nil
    resolves,    \* what resolver.Resolve returns now, per key id it may know
    nowFunc,     \* verifier.nowFunc: "system" (time.Now) or "frozen" (a test clock)
    wallNow,     \* time.Now()
    pc,          \* per caller: the place of its call
    frame,       \* per caller: the locals and results of its call
    trace,       \* per caller: what its call has done so far (history)
    accs,        \* the accumulators of the live operations: the bytes written
    opts,        \* the options NewSigner is called with
    signer       \* the signer NewSigner returned, once it has been called

vars == <<keys, hasResolver, resolves, nowFunc, wallNow, pc, frame, trace, accs,
          opts, signer>>

\* no signer has been made
NoSigner == [made |-> FALSE, headers |-> <<>>]

\* v.nowFunc(): the system clock, or a test clock that stands at the time
\* the verifier was made
NowFunc == IF nowFunc = "system" THEN wallNow ELSE 0

\* v.resolver.Resolve(keyID)
Resolve(keyID) == IF keyID \in DynIds THEN resolves[keyID] ELSE NilKey

NoParams == [ParseErr EXCEPT !.err = FALSE]

IdleFrame ==
    [op |-> "none", mid |-> 0, idx |-> 0,
     sigID |-> <<>>, params |-> NoParams, selected |-> FALSE, paramsRaw |-> <<>>,
     signature |-> <<>>, ver |-> ZeroHolder, sig |-> <<>>, verifier |-> NoOperation,
     rkId |-> "", rkCtx |-> "none", rkKey |-> NilKey, rkHolder |-> ZeroHolder,
     rkOk |-> FALSE, keyID |-> "", err |-> "nil",
     body |-> <<>>, digest |-> <<>>, outKeyID |-> "", outErr |-> "nil",
     status |-> 0, contentType |-> "", written |-> "", handled |-> FALSE]

IdleTrace ==
    [resolved |-> <<>>,    \* key ids ResolveKey was called with, in order
     results |-> <<>>,     \* the ok those calls of ResolveKey returned, in order
     asked |-> <<>>,       \* key ids resolver.Resolve was called with, in order
     missed |-> FALSE,     \* the last keys.Load found nothing
     stored |-> 0,         \* keys.Store calls
     parsed |-> 0,         \* parseSignatureInput calls
     built |-> 0,          \* verifying operations constructed
     verified |-> 0,       \* verify(sig) calls
     accepted |-> FALSE,   \* the last verify(sig) returned nil
     expiryAt |-> -1,      \* time.Now() as read by the expiry check
     clockAt |-> -1]       \* v.nowFunc() at that moment

\* NewVerifier: the clock is the system clock unless a test replaces it, and
\* the options register the static keys and the resolver
StaticKeys == [k \in {"ks"} |-> verifyHmacSha256("KS")]
Configs ==
    {[resolver |-> TRUE, clock |-> "system"],
     [resolver |-> FALSE, clock |-> "system"],
     [resolver |-> FALSE, clock |-> "frozen"]}

Init ==
    /\ keys = StaticKeys
    /\ \E c \in Configs : hasResolver = c.resolver /\ nowFunc = c.clock
    /\ resolves = [k \in DynIds |-> NilKey]
    /\ wallNow = 0
    /\ pc = [p \in Procs |-> "idle"]
    /\ frame = [p \in Procs |-> IdleFrame]
    /\ trace = [p \in Procs |-> IdleTrace]
    /\ accs = <<>>
    /\ opts = <<>>
    /\ signer = NoSigner

\* caller p goes on at `where` with locals f and history tr
Goto(p, f, tr, where) ==
    /\ frame' = [frame EXCEPT ![p] = f]
    /\ trace' = [trace EXCEPT ![p] = tr]
    /\ pc' = [pc EXCEPT ![p] = where]

\* return keyID, err
Done(p, f, tr, keyID, err) ==
    Goto(p, [f EXCEPT !.keyID = keyID, !.err = err], tr, "done")

\* v.ResolveKey(keyID) is entered
EnterResolveKey(p, f, tr, keyID, ctx) ==
    Goto(p, [f EXCEPT !.rkId = keyID, !.rkCtx = ctx, !.rkKey = NilKey,
                      !.rkHolder = ZeroHolder, !.rkOk = FALSE],
         [tr EXCEPT !.resolved = Append(@, keyID)], "rk_load")

\* ------------------------------------------------------------------------
\* verifier.Verify

SigParts(msg) == Split(HeaderGet(msg.Header, "Signature"), CommaSpace)
ParamParts(msg) == Split(HeaderGet(msg.Header, "Signature-Input"), CommaSpace)

\* the header checks without the comparison of the counts
HeaderCheckNoCount(msg) ==
    IF HeaderGet(msg.Header, "Signature") = <<>> THEN "errNotSigned"
    ELSE IF HeaderGet(msg.Header, "Signature-Input") = <<>> THEN "errNotSigned"
    ELSE "nil"

\* the header checks at the head of Verify
HeaderCheck(msg) ==
    IF HeaderGet(msg.Header, "Signature") = <<>> THEN "errNotSigned"
    ELSE IF HeaderGet(msg.Header, "Signature-Input") = <<>> THEN "errNotSigned"
    ELSE IF Len(SigParts(msg)) # Len(ParamParts(msg)) THEN "errMalformedSignature"
    ELSE "nil"

\* The values Verify computes from the message alone, computed once for each
\* message: the header check, the parts of the Signature header, and for
\* each part of Signature-Input its split at "=" and the parse of its value.
HeaderCheckOf == [m \in MsgIds |-> HeaderCheck(Messages[m])]
SigPartsOf == [m \in MsgIds |-> SigParts(Messages[m])]
Candidate(pParts) ==
    [pParts |-> pParts,
     candidate |-> IF Len(pParts) = 2 THEN parseSignatureInput(pParts[2]) ELSE ParseErr]
CandidatesOf ==
    [m \in MsgIds |->
        [i \in 1..Len(ParamParts(Messages[m])) |->
            Candidate(SplitN2(ParamParts(Messages[m])[i], <<"=">>))]]

\* a loop that, past the last part, reports the headers as malformed
NextCandidateMalformed(p, f, tr) ==
    \E cs \in {CandidatesOf[f.mid]} :
        IF f.idx > Len(cs) \/ Len(cs[f.idx].pParts) # 2
        THEN Done(p, f, tr, "", "errMalformedSignature")
        ELSE IF cs[f.idx].candidate.err
        THEN Done(p, f, [tr EXCEPT !.parsed = @ + 1], "", "errMalformedSignature")
        ELSE EnterResolveKey(p, f, [tr EXCEPT !.parsed = @ + 1],
                             cs[f.idx].candidate.keyID, "select")

\* one round of the loop over paramParts, up to its call of ResolveKey; past
\* the last part, params is nil
NextCandidate(p, f, tr) ==
    \E cs \in {CandidatesOf[f.mid]} :
        IF f.idx > Len(cs) THEN Done(p, f, tr, "", "errUnknownKey")
        ELSE IF Len(cs[f.idx].pParts) # 2
        THEN Done(p, f, tr, "", "errMalformedSignature")
        ELSE IF cs[f.idx].candidate.err
        THEN Done(p, f, [tr EXCEPT !.parsed = @ + 1], "", "errMalformedSignature")
        ELSE EnterResolveKey(p, f, [tr EXCEPT !.parsed = @ + 1],
                             cs[f.idx].candidate.keyID, "select")

\* Verify is called: the header checks and the first round of the loop
CallVerify(p, m) ==
    /\ pc[p] = "idle"
    /\ IF HeaderCheckOf[m] # "nil"
       THEN Done(p, [IdleFrame EXCEPT !.op = "Verify", !.mid = m, !.idx = 1],
                 IdleTrace, "", HeaderCheckOf[m])
       ELSE NextCandidate(p, [IdleFrame EXCEPT !.op = "Verify", !.mid = m, !.idx = 1],
                          IdleTrace)
    /\ UNCHANGED <<keys, hasResolver, resolves, nowFunc, wallNow, accs, opts, signer>>

\* an extraction that wants every part it passes to hold base64 between colons
ExtractStrict(sParts, rest, sigID, later) ==
    IF Len(sParts) # 2 \/ ~B64Valid(Trim(sParts[2], {":"}))
    THEN [err |-> TRUE, signature |-> <<>>]
    ELSE IF sParts[1] = sigID
    THEN [err |-> FALSE, signature |-> Trim(sParts[2], {":"})]
    ELSE later

\* the value of the first part of rest labelled sigID, trimmed; the parts
\* before it must split at "="
ExtractFrom(sParts, rest, sigID, later) ==
    IF Len(sParts) # 2 THEN [err |-> TRUE, signature |-> <<>>]
    ELSE IF sParts[1] = sigID
    THEN [err |-> FALSE, signature |-> Trim(sParts[2], {":"})]
    ELSE later

RECURSIVE ExtractSignature(_, _)
\* the loop over sigParts: [err, signature]
ExtractSignature(sigParts, sigID) ==
    IF sigParts = <<>> THEN [err |-> FALSE, signature |-> <<>>]
    ELSE ExtractFrom(SplitN2(Head(sigParts), <<"=">>), Tail(sigParts), sigID,
                     ExtractSignature(Tail(sigParts), sigID))

\* ResolveKey has returned to the selection loop: the candidate is selected
\* and its signature extracted, or the loop goes on
Selected(p, f, tr) ==
    IF ~f.rkOk
    THEN NextCandidate(p, [f EXCEPT !.idx = @ + 1], tr)
    ELSE \E c \in {CandidatesOf[f.mid][f.idx]} :
         \E x \in {ExtractSignature(SigPartsOf[f.mid], c.pParts[1])} :
            IF x.err \/ x.signature = <<>>
            THEN Done(p, [f EXCEPT !.sigID = c.pParts[1], !.params = c.candidate,
                                   !.selected = TRUE, !.paramsRaw = c.pParts[2]],
                      tr, c.candidate.keyID, "errMalformedSignature")
            ELSE EnterResolveKey(p, [f EXCEPT !.sigID = c.pParts[1],
                                              !.params = c.candidate,
                                              !.selected = TRUE,
                                              !.paramsRaw = c.pParts[2],
                                              !.signature = x.signature],
                                 tr, c.candidate.keyID, "second")

\* a binding check that takes an absent algorithm for a different one
AlgMismatchEither(ver, params) == ver.alg # params.alg

\* the algorithm binding check
AlgMismatch(ver, params) == ver.alg # "" /\ params.alg # "" /\ ver.alg # params.alg

\* the two checks the other way round: the decoding before the algorithm
BindingErrorDecodeFirst(ver, params, signature) ==
    IF ~B64Valid(signature) THEN "errMalformedSignature"
    ELSE IF AlgMismatch(ver, params) THEN "errAlgMismatch"
    ELSE "nil"

\* the algorithm check, then the decoding of the signature
BindingError(ver, params, signature) ==
    IF AlgMismatch(ver, params) THEN "errAlgMismatch"
    ELSE IF ~B64Valid(signature) THEN "errMalformedSignature"
    ELSE "nil"

\* ver, _ := v.ResolveKey(params.keyID) has returned: the algorithm check,
\* the decoding, the construction and the feeding of the verifying operation
Bound(p, f, tr) ==
    \E ver \in {f.rkHolder} :
        IF BindingError(ver, f.params, f.signature) # "nil"
        THEN /\ Done(p, [f EXCEPT !.ver = ver], tr, f.params.keyID,
                     BindingError(ver, f.params, f.signature))
             /\ accs' = accs
        ELSE IF ver.key = NilKey
        THEN /\ Done(p, [f EXCEPT !.ver = ver], tr, "", "panic")
             /\ accs' = accs
        ELSE \E b \in {SigningBase(f.params.items, Messages[f.mid], f.paramsRaw)} :
             \E acc \in {NewAccumulator(accs)} :
             \E g \in {[f EXCEPT !.ver = ver, !.sig = B64Decode(f.signature),
                                 !.verifier = NewOperation(ver, acc)]} :
                IF b.err
                THEN /\ Done(p, g, [tr EXCEPT !.built = @ + 1], f.params.keyID,
                             "errComponent")
                     /\ accs' = WriteAccumulator(accs, acc, <<>>)
                ELSE /\ Goto(p, g, [tr EXCEPT !.built = @ + 1], "finalize")
                     /\ accs' = WriteAccumulator(accs, acc, b.buf)

\* a verify step that goes on to the next candidate when the signature fails
FinalizeRetry(p) ==
    /\ pc[p] = "finalize"
    /\ \E f \in {frame[p]} :
       \E ok \in {KeyVerify(f.verifier.key, accs[f.verifier.acc], f.sig)} :
       \E tr \in {[trace[p] EXCEPT !.verified = @ + 1, !.accepted = ok]} :
          IF ~ok THEN NextCandidate(p, [f EXCEPT !.idx = @ + 1], tr)
          ELSE Goto(p, f, tr, "expiry")
    /\ UNCHANGED <<keys, hasResolver, resolves, nowFunc, wallNow, accs, opts, signer>>

\* err = verifier.verify(sig)
Finalize(p) ==
    /\ pc[p] = "finalize"
    /\ \E f \in {frame[p]} :
       \E ok \in {KeyVerify(f.verifier.key, accs[f.verifier.acc], f.sig)} :
       \E tr \in {[trace[p] EXCEPT !.verified = @ + 1, !.accepted = ok]} :
          IF ~ok THEN Done(p, f, tr, f.params.keyID, "errInvalidSignature")
          ELSE Goto(p, f, tr, "expiry")
    /\ UNCHANGED <<keys, hasResolver, resolves, nowFunc, wallNow, accs, opts, signer>>

\* the comparison the other way round: expires lies before now
ExpiredPast(params, now) == params.hasExpires /\ params.expires < now

\* params.expires != nil && params.expires.After(now)
Expired(params, now) == params.hasExpires /\ params.expires > now

\* the expiry check, which reads time.Now(), and the final return
CheckExpiry(p) ==
    /\ pc[p] = "expiry"
    /\ \E f \in {frame[p]} :
       \E tr \in {[trace[p] EXCEPT !.expiryAt = wallNow, !.clockAt = NowFunc]} :
          IF Expired(f.params, wallNow)
          THEN Done(p, f, tr, f.params.keyID, "errSignatureExpired")
          ELSE Done(p, f, tr, f.params.keyID, "nil")
    /\ UNCHANGED <<keys, hasResolver, resolves, nowFunc, wallNow, accs, opts, signer>>

\* ------------------------------------------------------------------------
\* verifier.ResolveKey

\* a store that keeps no other entry
MapStoreAlone(m, k, v) == [x \in {k} |-> v]

\* sync.Map.Store
MapStore(m, k, v) == [x \in DOMAIN m \cup {k} |-> IF x = k THEN v ELSE m[x]]

\* a caller calls ResolveKey itself
CallResolveKey(p, k) ==
    /\ pc[p] = "idle"
    /\ EnterResolveKey(p, [IdleFrame EXCEPT !.op = "ResolveKey"], IdleTrace, k, "direct")
    /\ UNCHANGED <<keys, hasResolver, resolves, nowFunc, wallNow, accs, opts, signer>>

\* return holder, ok: the caller of ResolveKey goes on
ResolveKeyReturn(p, f0, tr0, holder, ok) ==
    \E f \in {[f0 EXCEPT !.rkHolder = holder, !.rkOk = ok]} :
    \E tr \in {[tr0 EXCEPT !.results = Append(@, ok)]} :
        CASE f.rkCtx = "select" -> Selected(p, f, tr) /\ accs' = accs
          [] f.rkCtx = "second" -> Bound(p, f, tr)
          [] OTHER -> Goto(p, f, tr, "done") /\ accs' = accs

\* v.keys.Load(keyID), and the return when there is no resolver
RkLoad(p) ==
    /\ pc[p] = "rk_load"
    /\ \E f \in {frame[p]} :
       \E hit \in {f.rkId \in DOMAIN keys} :
       \E tr \in {[trace[p] EXCEPT !.missed = ~hit]} :
          IF ~hit /\ hasResolver
          THEN Goto(p, f, tr, "rk_resolve") /\ accs' = accs
          ELSE ResolveKeyReturn(p, f, tr, IF hit THEN keys[f.rkId] ELSE ZeroHolder, hit)
    /\ UNCHANGED <<keys, hasResolver, resolves, nowFunc, wallNow, opts, signer>>

\* a resolve step that stores the empty holder when the resolver has no key
RkResolveCaching(p) ==
    /\ pc[p] = "rk_resolve"
    /\ \E f \in {frame[p]} :
       \E key \in {Resolve(f.rkId)} :
       \E tr \in {[trace[p] EXCEPT !.asked = Append(@, f.rkId)]} :
          IF key # NilKey
          THEN /\ keys' = keys /\ accs' = accs
               /\ Goto(p, [f EXCEPT !.rkKey = key], tr, "rk_store")
          ELSE /\ keys' = MapStore(keys, f.rkId, ZeroHolder)
               /\ ResolveKeyReturn(p, f, tr, ZeroHolder, FALSE)
    /\ UNCHANGED <<hasResolver, resolves, nowFunc, wallNow, opts, signer>>

\* key := v.resolver.Resolve(keyID), and the return when it is nil
RkResolve(p) ==
    /\ pc[p] = "rk_resolve"
    /\ \E f \in {frame[p]} :
       \E key \in {Resolve(f.rkId)} :
       \E tr \in {[trace[p] EXCEPT !.asked = Append(@, f.rkId)]} :
          IF key # NilKey
          THEN Goto(p, [f EXCEPT !.rkKey = key], tr, "rk_store") /\ accs' = accs
          ELSE ResolveKeyReturn(p, f, tr, ZeroHolder, FALSE)
    /\ UNCHANGED <<keys, hasResolver, resolves, nowFunc, wallNow, opts, signer>>

\* v.keys.Store(keyID, holder); return holder, true
RkStore(p) ==
    /\ pc[p] = "rk_store"
    /\ \E f \in {frame[p]} :
       \E holder \in {DynamicHolder(f.rkKey)} :
          /\ keys' = MapStore(keys, f.rkId, holder)
          /\ ResolveKeyReturn(p, f, [trace[p] EXCEPT !.stored = @ + 1], holder, TRUE)
    /\ UNCHANGED <<hasResolver, resolves, nowFunc, wallNow, opts, signer>>

\* ------------------------------------------------------------------------
\* Verifier.Verify and the verify middleware

\* the bodies of the requests, and the hash of a body
Bodies == {<<"a">>}
Sha256(body) == <<"sha256">> \o body

\* the value of the Digest header for a body
DigestValue(body) == <<"id-sha256", "=">> \o B64Encode(Sha256(body))

\* the Digest headers of the requests: none, the digest of the body, or the
\* digest of another body
Digests == {<<>>} \cup {DigestValue(b) : b \in Bodies \cup {<<>>}}

verifyDigest(body, dig) == dig = DigestValue(body)

\* the callers that call through Verifier.Verify
RequestCallers == {"first"}

\* the error Verifier.Verify returns: that of verifier.Verify, or else that
\* of the digest check when the request has a Digest header
VerifierVerify(err, body, dig) ==
    IF err # "nil" THEN err
    ELSE IF dig # <<>> /\ ~verifyDigest(body, dig) THEN "digest mismatch"
    ELSE "nil"

\* verifier.Verify has returned to Verifier.Verify, which reads the body and
\* the Digest header of its request and returns
VerifierReturn(p, body, dig) ==
    /\ pc[p] = "done"
    /\ frame[p].op = "Verify"
    /\ p \in RequestCallers
    /\ Goto(p, [frame[p] EXCEPT !.body = body, !.digest = dig,
                                !.outKeyID = frame[p].keyID,
                                !.outErr = VerifierVerify(frame[p].err, body, dig)],
            trace[p], "verified")
    /\ UNCHANGED <<keys, hasResolver, resolves, nowFunc, wallNow, accs, opts, signer>>

\* a middleware that lets a request with a wrong digest through
RejectedSignature(err) == err \notin {"nil", "digest mismatch"}

\* if _, err := v.Verify(r); err != nil
Rejected(err) == err # "nil"

\* Verifier.Verify has returned to the middleware, which serves the error
\* or calls the wrapped handler
ServeHTTP(p) ==
    /\ pc[p] = "verified"
    /\ IF Rejected(frame[p].outErr)
       THEN Goto(p, [frame[p] EXCEPT !.contentType = "text/plain", !.status = 400,
                                     !.written = "invalid required signature"],
                 trace[p], "served")
       ELSE Goto(p, [frame[p] EXCEPT !.handled = TRUE], trace[p], "served")
    /\ UNCHANGED <<keys, hasResolver, resolves, nowFunc, wallNow, accs, opts, signer>>

\* the caller takes the result and is free for its next call
Return(p) ==
    /\ pc[p] \in {"done", "verified", "served"}
    /\ Goto(p, IdleFrame, IdleTrace, "idle")
    /\ accs' = Collect(accs, [frame EXCEPT ![p] = IdleFrame])
    /\ UNCHANGED <<keys, hasResolver, resolves, nowFunc, wallNow, opts, signer>>

\* ------------------------------------------------------------------------
\* The environment: the wall clock and the resolver's knowledge

Tick ==
    /\ wallNow < MaxTime
    /\ wallNow' = wallNow + 1
    /\ UNCHANGED <<keys, hasResolver, resolves, nowFunc, pc, frame, trace, accs, opts, signer>>

\* the resolver comes to return another key (or none) for a key id
ResolverChange(k, key) ==
    /\ hasResolver
    /\ resolves[k] # key
    /\ resolves' = [resolves EXCEPT ![k] = key]
    /\ UNCHANGED <<keys, hasResolver, nowFunc, wallNow, pc, frame, trace, accs, opts, signer>>

Next ==
    \/ \E p \in Procs : \E m \in MsgsOf(p) : CallVerify(p, m)
    \/ \E p \in Procs : \E k \in IdsOf(p) : CallResolveKey(p, k)
    \/ \E p \in Procs : RkLoad(p)
    \/ \E p \in Procs : RkResolve(p)
    \/ \E p \in Procs : RkStore(p)
    \/ \E p \in Procs : Finalize(p)
    \/ \E p \in Procs : CheckExpiry(p)
    \/ \E p \in Procs : \E body \in Bodies : \E dig \in Digests : VerifierReturn(p, body, dig)
    \/ \E p \in Procs : ServeHTTP(p)
    \/ \E p \in Procs : Return(p)
    \/ Tick
    \/ \E k \in DynIds : \E key \in {NilKey, "K1", "K2"} : ResolverChange(k, key)

Spec == Init /\ [][Next]_vars

\* ------------------------------------------------------------------------
\* NewSigner

MaxHeaders == 2
MaxOpts == 2

defaultHeaders == <<"content-type", "content-length">>

\* the components NewSigner adds, in the order of its loop
Specialty == <<"digest", "@query", "@path", "@method">>

sliceHas(haystack, needle) == \E i \in 1..Len(haystack) : haystack[i] = needle

\* the names the callers pass to WithHeaders, and the lists they pass
HeaderNames == {"@method", "@path", "@query", "digest", "host", "date"}
HeaderLists == UNION {[1..n -> HeaderNames] : n \in 0..MaxHeaders}

\* the options: WithHeaders(hdr...), and an option that registers a key
WithHeaders(hdr) == [kind |-> "WithHeaders", hdr |-> hdr]
WithHmacSha256 == [kind |-> "WithHmacSha256", hdr |-> <<>>]
Options == {WithHeaders(hdr) : hdr \in HeaderLists} \cup {WithHmacSha256}
OptionLists == UNION {[1..n -> Options] : n \in 0..MaxOpts}

\* o.configureSign(&s), as far as s.headers goes
configureSign(headers, o) == IF o.kind = "WithHeaders" THEN o.hdr ELSE headers

RECURSIVE Configure(_, _)
\* for _, o := range opts { o.configureSign(&s) }
Configure(headers, os) ==
    IF os = <<>> THEN headers
    ELSE Configure(configureSign(headers, Head(os)), Tail(os))

RECURSIVE PrependMissing(_, _)
\* the loop over the specialty components: one that is not in the list is
\* put at its head
PrependMissing(headers, comps) ==
    IF comps = <<>> THEN headers
    ELSE PrependMissing(IF sliceHas(headers, Head(comps)) THEN headers
                        ELSE <<Head(comps)>> \o headers,
                        Tail(comps))

\* s.headers once the options are applied and the default is taken
ConfiguredHeaders(os) ==
    IF Len(Configure(<<>>, os)) = 0 THEN defaultHeaders ELSE Configure(<<>>, os)

NewSigner(os) == [made |-> TRUE, headers |-> PrependMissing(ConfiguredHeaders(os), Specialty)]

\* a program calls NewSigner with its options
CallNewSigner ==
    /\ ~signer.made
    /\ signer' = NewSigner(opts)
    /\ UNCHANGED <<keys, hasResolver, resolves, nowFunc, wallNow, pc, frame, trace,
                   accs, opts>>

\* the programs that make a signer: any list of options, and a verifier
\* that is not in use
SignerInit ==
    /\ opts \in OptionLists
    /\ signer = NoSigner
    /\ keys = StaticKeys
    /\ hasResolver = FALSE
    /\ nowFunc = "system"
    /\ resolves = [k \in DynIds |-> NilKey]
    /\ wallNow = 0
    /\ pc = [p \in Procs |-> "idle"]
    /\ frame = [p \in Procs |-> IdleFrame]
    /\ trace = [p \in Procs |-> IdleTrace]
    /\ accs = <<>>

SignerNext == CallNewSigner

SignerSpec == SignerInit /\ [][SignerNext]_vars

\* ------------------------------------------------------------------------
\* Properties of verifier.Verify.  What a property says of the message is
\* computed from the message's headers, not read from the locals of the call.

\* caller p's call of Verify has returned
Returned(p) == pc[p] = "done" /\ frame[p].op = "Verify"

MsgOf(p) == Messages[frame[p].mid]

\* For each message and each part of its Signature-Input header: the part
\* split at "=", its parameters, the value of the Signature part that
\* carries its label, whether that value is base64 and what it decodes to,
\* and the signing base of its parameters.
EntriesOf ==
    [m \in MsgIds |->
        [i \in 1..Len(ParamParts(Messages[m])) |->
            LET part == SplitN2(ParamParts(Messages[m])[i], <<"=">>)
                ok == Len(part) = 2
                params == IF ok THEN parseSignatureInput(part[2]) ELSE ParseErr
                signature ==
                    IF ok THEN ExtractSignature(SigParts(Messages[m]), part[1]).signature
                    ELSE <<>>
            IN [part |-> part,
                params |-> params,
                signature |-> signature,
                extractErr |->
                    ok /\ ExtractSignature(SigParts(Messages[m]), part[1]).err,
                baseErr |->
                    ok /\ SigningBase(params.items, Messages[m], part[2]).err,
                decodes |-> B64Valid(signature),
                decoded |-> IF B64Valid(signature) THEN B64Decode(signature) ELSE <<>>,
                base |->
                    IF ok THEN SigningBase(params.items, Messages[m], part[2]).buf
                    ELSE <<>>]]]

\* the entry at the index p's call stands at
SelectedPart(p) == EntriesOf[frame[p].mid][frame[p].idx].part
SelectedParams(p) == EntriesOf[frame[p].mid][frame[p].idx].params
SelectedSignature(p) == EntriesOf[frame[p].mid][frame[p].idx].signature
SelectedDecodes(p) == EntriesOf[frame[p].mid][frame[p].idx].decodes
SelectedDecoded(p) == EntriesOf[frame[p].mid][frame[p].idx].decoded
SelectedBase(p) == EntriesOf[frame[p].mid][frame[p].idx].base

\* the key of the selected entry's holder made the decoded signature over
\* the signing base
VerifiesCryptographically(p) ==
    /\ SelectedDecodes(p)
    /\ SelectedDecoded(p) = Sign(frame[p].ver.key, SelectedBase(p))

\* C1: Verify returns a nil error only if the key of the entry resolved for
\* the selected candidate's key id made the base64-decoded signature of the
\* selected label over the rebuilt signing base, and then the key id returned
\* is the selected candidate's; when the verifying operation was asked and
\* the signature is not that key's, the result is InvalidSignature.
C1_SuccessOnlyIfAccepted ==
    \A p \in Procs :
        Returned(p) =>
            /\ frame[p].err = "nil" =>
                /\ frame[p].selected
                /\ frame[p].keyID = SelectedParams(p).keyID
                /\ frame[p].rkId = frame[p].keyID
                /\ frame[p].rkOk
                /\ frame[p].ver = frame[p].rkHolder
                /\ trace[p].verified = 1
                /\ VerifiesCryptographically(p)
            /\ (trace[p].verified > 0 /\ ~VerifiesCryptographically(p)) =>
                frame[p].err = "errInvalidSignature"

\* one caller has a success, the other a rejection by the verifying operation
C1_Witness ==
    \E p, q \in Procs :
        /\ Returned(p) /\ frame[p].err = "nil" /\ frame[p].keyID # ""
        /\ Returned(q) /\ frame[q].err = "errInvalidSignature"
        /\ trace[q].verified = 1

\* C2: once a candidate is selected and a non-empty signature value is
\* extracted for its label, Verify returns AlgMismatch exactly when the
\* algorithm of the key entry and the declared alg are both non-empty and
\* differ, whether or not the signature decodes; with AlgMismatch no
\* verifying operation was constructed or fed.
C2_AlgBinding ==
    \A p \in Procs :
        Returned(p) =>
            /\ (frame[p].selected /\ SelectedSignature(p) # <<>>) =>
                /\ SelectedParams(p).keyID \in DOMAIN keys
                /\ (frame[p].err = "errAlgMismatch") <=>
                      /\ keys[SelectedParams(p).keyID].alg # ""
                      /\ SelectedParams(p).alg # ""
                      /\ keys[SelectedParams(p).keyID].alg # SelectedParams(p).alg
            /\ frame[p].err = "errAlgMismatch" =>
                /\ frame[p].selected
                /\ SelectedSignature(p) # <<>>
                /\ trace[p].built = 0
                /\ trace[p].verified = 0
                /\ frame[p].verifier = NoOperation

\* AlgMismatch for a signature value that does not decode
C2_Witness ==
    \E p \in Procs :
        /\ Returned(p)
        /\ frame[p].err = "errAlgMismatch"
        /\ ~SelectedDecodes(p)

\* C3: Verify asks for the key ids of the Signature-Input entries in header
\* order, selects the first entry whose key id resolves and asks for no
\* later entry's key id; at most one verifying operation is built and at
\* most one signature checked, and a call that selected an entry returns
\* that entry's key id or fails.
C3_FirstMatchFailFast ==
    \A p \in Procs :
        frame[p].op = "Verify" =>
            LET cs == EntriesOf[frame[p].mid]
                r == trace[p].resolved
                oks == trace[p].results
                idx == frame[p].idx
            IN /\ trace[p].verified <= 1
               /\ trace[p].built <= 1
               /\ Len(oks) \in {Len(r) - 1, Len(r)}
               /\ \A i \in 1..Len(r) : i <= idx => r[i] = cs[i].params.keyID
               /\ ~frame[p].selected =>
                    /\ Len(r) \in {idx - 1, idx}
                    /\ \A i \in 1..Len(oks) : ~oks[i]
               /\ frame[p].selected =>
                    /\ Len(r) \in {idx, idx + 1}
                    /\ Len(r) = idx + 1 => r[idx + 1] = cs[idx].params.keyID
                    /\ \A i \in 1..Len(oks) : oks[i] <=> i >= idx
               /\ (Returned(p) /\ frame[p].selected) =>
                    \/ frame[p].err # "nil" /\ frame[p].err # "errUnknownKey"
                    \/ frame[p].keyID = cs[idx].params.keyID
               /\ (Returned(p) /\ frame[p].err = "errUnknownKey") =>
                    ~frame[p].selected /\ Len(r) = Len(cs)

\* the selected signature failed and the call failed, though the next entry
\* names a key id the store holds and carries that key's signature
C3_Witness ==
    \E p \in Procs :
        /\ Returned(p)
        /\ frame[p].selected
        /\ frame[p].err = "errInvalidSignature"
        /\ frame[p].idx < Len(EntriesOf[frame[p].mid])
        /\ LET e == EntriesOf[frame[p].mid][frame[p].idx + 1]
           IN /\ e.params.keyID \in DOMAIN keys
              /\ e.decodes
              /\ e.decoded = Sign(keys[e.params.keyID].key, e.base)

\* messages a and b are the same but for the value of the first entry of
\* their Signature headers
DifferInFirstValue(a, b) ==
    /\ a.Method = b.Method /\ a.Path = b.Path /\ a.RawQuery = b.RawQuery
    /\ a.Authority = b.Authority
    /\ DOMAIN a.Header = DOMAIN b.Header
    /\ \A h \in DOMAIN a.Header \ {"Signature"} : a.Header[h] = b.Header[h]
    /\ HeaderGet(a.Header, "Signature") # <<>>
    /\ HeaderGet(b.Header, "Signature") # <<>>
    /\ Len(SigParts(a)) = Len(ParamParts(a))
    /\ Len(SigParts(b)) = Len(ParamParts(b))
    /\ Tail(SigParts(a)) = Tail(SigParts(b))
    /\ Len(SplitN2(Head(SigParts(a)), <<"=">>)) = 2
    /\ Len(SplitN2(Head(SigParts(b)), <<"=">>)) = 2
    /\ SplitN2(Head(SigParts(a)), <<"=">>)[1] = SplitN2(Head(SigParts(b)), <<"=">>)[1]

\* for each pair of messages, whether they are such messages
FirstValueVariants ==
    [a \in MsgIds |-> [b \in MsgIds |-> DifferInFirstValue(Messages[a], Messages[b])]]

\* for each message, whether it has two well-formed Signature-Input entries
TwoEntries ==
    [m \in MsgIds |->
        /\ HeaderGet(Messages[m].Header, "Signature-Input") # <<>>
        /\ Len(EntriesOf[m]) = 2
        /\ \A i \in 1..2 : Len(EntriesOf[m][i].part) = 2 /\ ~EntriesOf[m][i].params.err]

\* the value of the first Signature entry of a message, between its colons
FirstValueOf ==
    [m \in MsgIds |->
        LET first == SplitN2(Head(SigParts(Messages[m])), <<"=">>) IN
        IF Len(first) = 2 THEN Trim(first[2], {":"}) ELSE <<>>]

\* message m has two entries and the store can resolve the key id of the
\* second only
OnlySecondResolvable(m) ==
    /\ TwoEntries[m]
    /\ EntriesOf[m][1].params.keyID \notin DOMAIN keys
    /\ EntriesOf[m][1].params.keyID \notin DynIds
    /\ EntriesOf[m][2].params.keyID \in DOMAIN keys

\* C4: of a message with two signature labels of which only the second
\* names a key id that resolves, Verify selects and checks the second
\* signature only, and two calls whose messages differ only in the value of
\* the first Signature entry return the same key id and the same error.
C4_MultiSignatureIndependence ==
    \A p, q \in Procs :
        (/\ Returned(p) /\ Returned(q)
         /\ OnlySecondResolvable(frame[p].mid)
         /\ FirstValueVariants[frame[p].mid][frame[q].mid])
        => /\ frame[p].keyID = frame[q].keyID
           /\ frame[p].err = frame[q].err
           /\ frame[p].selected
           /\ frame[p].idx = 2
           /\ frame[p].sigID = EntriesOf[frame[p].mid][2].part[1]
           /\ trace[p].verified <= 1
           /\ trace[p].verified = 1 =>
                frame[p].sig = SelectedDecoded(p)

\* two calls have returned, one for a message whose first signature value
\* decodes and one for the same message with that value corrupted
C4_Witness ==
    \E p, q \in Procs :
        /\ Returned(p) /\ Returned(q)
        /\ OnlySecondResolvable(frame[p].mid)
        /\ FirstValueVariants[frame[p].mid][frame[q].mid]
        /\ B64Valid(FirstValueOf[frame[p].mid])
        /\ ~B64Valid(FirstValueOf[frame[q].mid])
        /\ frame[p].err = "nil"

C6_ClockInjectable ==
    \A p \in Procs :
        (/\ Returned(p)
         /\ frame[p].selected
         /\ trace[p].verified = 1
         /\ VerifiesCryptographically(p))
        => (frame[p].err = "errSignatureExpired"
              <=> /\ SelectedParams(p).hasExpires
                  /\ SelectedParams(p).expires > trace[p].clockAt)

\* C7: an entry the store holds for a key id is never replaced by a
\* different one.
C7_CachePersistence ==
    [][\A k \in DOMAIN keys : k \in DOMAIN keys' /\ keys'[k] = keys[k]]_vars

\* C8: callers that called ResolveKey for the same key id while the store
\* did not hold it, and found a key, all hold an entry of the key the store
\* is left with.
C8_CacheStability ==
    \A p, q \in Procs :
        (/\ pc[p] = "done" /\ frame[p].op = "ResolveKey"
         /\ pc[q] = "done" /\ frame[q].op = "ResolveKey"
         /\ frame[p].rkId = frame[q].rkId
         /\ trace[p].missed /\ trace[q].missed
         /\ frame[p].rkOk /\ frame[q].rkOk)
        => /\ frame[p].rkId \in DOMAIN keys
           /\ frame[p].rkHolder.key = keys[frame[p].rkId].key
           /\ frame[q].rkHolder.key = keys[frame[p].rkId].key

\* a call of ResolveKey by caller p has returned
Resolved(p) == pc[p] = "done" /\ frame[p].op = "ResolveKey"

\* what the store may hold and what a returned call of ResolveKey did
NegativeNotStored ==
    /\ \A k \in DOMAIN keys : keys[k].key # NilKey
    /\ ~hasResolver => keys = StaticKeys
    /\ \A p \in Procs :
          Resolved(p) =>
              /\ frame[p].rkOk <=> ~trace[p].missed \/ frame[p].rkKey # NilKey
              /\ ~frame[p].rkOk =>
                    /\ frame[p].rkHolder = ZeroHolder
                    /\ trace[p].stored = 0
              /\ trace[p].asked =
                    IF trace[p].missed /\ hasResolver THEN <<frame[p].rkId>> ELSE <<>>
              /\ ~hasResolver => (frame[p].rkOk <=> frame[p].rkId \in DOMAIN StaticKeys)

\* the store changes only by the Store of a key the resolver returned
OnlyKeysStored ==
    keys' # keys =>
        \E p \in Procs :
            /\ pc[p] = "rk_store"
            /\ frame[p].rkKey # NilKey
            /\ keys' = MapStore(keys, frame[p].rkId, DynamicHolder(frame[p].rkKey))

\* C9: when the resolver returns nothing for a key id the store does not
\* hold, ResolveKey reports not-found and stores nothing, so the store is
\* left as it was and every call that does not find the id in the store asks
\* the resolver; without a resolver an unregistered id is never found and the
\* store never changes.
C9_NegativeNotCached == []NegativeNotStored /\ [][OnlyKeysStored]_vars

\* a call was told by the resolver that there is no key and reported
\* not-found, and the store has since come to hold that key id
C9_Witness ==
    \E p \in Procs :
        /\ Resolved(p)
        /\ ~frame[p].rkOk
        /\ trace[p].asked = <<frame[p].rkId>>
        /\ frame[p].rkId \in DOMAIN keys

\* for each message, whether it has both headers and their splits on ", "
\* differ in length
CountMismatch ==
    [m \in MsgIds |->
        /\ HeaderGet(Messages[m].Header, "Signature") # <<>>
        /\ HeaderGet(Messages[m].Header, "Signature-Input") # <<>>
        /\ Len(Split(HeaderGet(Messages[m].Header, "Signature"), CommaSpace))
             # Len(Split(HeaderGet(Messages[m].Header, "Signature-Input"), CommaSpace))]

\* C10: when Signature and Signature-Input are both present and split on
\* ", " into different numbers of entries, Verify returns MalformedSignature
\* with an empty key id at once, having parsed no entry and asked for no key.
C10_CountMismatch ==
    \A p \in Procs :
        (frame[p].op = "Verify" /\ CountMismatch[frame[p].mid])
        => /\ pc[p] \in {"done", "verified", "served"}
           /\ frame[p].err = "errMalformedSignature"
           /\ frame[p].keyID = ""
           /\ trace[p].parsed = 0
           /\ trace[p].resolved = <<>>
           /\ trace[p].asked = <<>>
           /\ ~frame[p].selected

\* a call for a message of one Signature-Input entry and two Signature
\* entries has returned
C10_Witness ==
    \E p \in Procs :
        /\ Returned(p)
        /\ CountMismatch[frame[p].mid]
        /\ Len(SigParts(MsgOf(p))) = 2
        /\ Len(ParamParts(MsgOf(p))) = 1
        /\ frame[p].err = "errMalformedSignature"

\* for each message, whether both headers are present with equal numbers of
\* entries and every Signature-Input entry splits at "=" and parses
WellFormed ==
    [m \in MsgIds |->
        /\ HeaderGet(Messages[m].Header, "Signature") # <<>>
        /\ HeaderGet(Messages[m].Header, "Signature-Input") # <<>>
        /\ ~CountMismatch[m]
        /\ \A i \in 1..Len(EntriesOf[m]) :
              Len(EntriesOf[m][i].part) = 2 /\ ~EntriesOf[m][i].params.err]

\* no entry of p's message names a key id the store holds; the store only
\* grows and every key the resolver returns is stored, so none of them was
\* resolvable during the call
NoneResolvable(p) ==
    \A i \in 1..Len(EntriesOf[frame[p].mid]) :
        EntriesOf[frame[p].mid][i].params.keyID \notin DOMAIN keys

\* C11: when the headers are present with equal entry counts and no
\* Signature-Input entry names a resolvable key id, Verify fails with
\* UnknownKey and an empty key id, having asked for every entry's key id in
\* vain and constructed no verifying operation.
C11_UnknownKey ==
    \A p \in Procs :
        (Returned(p) /\ WellFormed[frame[p].mid] /\ NoneResolvable(p))
        => /\ frame[p].err = "errUnknownKey"
           /\ frame[p].keyID = ""
           /\ ~frame[p].selected
           /\ trace[p].built = 0
           /\ trace[p].verified = 0
           /\ frame[p].verifier = NoOperation
           /\ Len(trace[p].resolved) = Len(EntriesOf[frame[p].mid])
           /\ \A i \in 1..Len(trace[p].results) : ~trace[p].results[i]

\* UnknownKey for a key id the resolver was asked for and did not know
C11_Witness ==
    \E p \in Procs :
        /\ Returned(p)
        /\ frame[p].err = "errUnknownKey"
        /\ WellFormed[frame[p].mid]
        /\ trace[p].asked # <<>>
        /\ NoneResolvable(p)

\* a value delimited as a byte string: a leading and a trailing colon
Delimited(v) == Len(v) >= 2 /\ v[1] = ":" /\ v[Len(v)] = ":"

\* For each message and each part of its Signature-Input header: whether
\* the Signature header has an entry with that part's label whose value is
\* delimited by colons (the first such entry decides).
DelimitedOf ==
    [m \in MsgIds |->
        [i \in 1..Len(EntriesOf[m]) |->
            LET sg == [j \in 1..Len(SigParts(Messages[m])) |->
                          SplitN2(SigParts(Messages[m])[j], <<"=">>)]
                hits == {j \in 1..Len(sg) :
                            Len(sg[j]) = 2 /\ sg[j][1] = EntriesOf[m][i].part[1]}
            IN /\ hits # {}
               /\ Delimited(sg[Min(hits)][2])]]

\* C12: once a candidate is selected, Verify fails with MalformedSignature
\* whenever the Signature header has no entry with the selected label or
\* that entry's value lacks its leading or its trailing colon.
C12_ColonsRequired ==
    \A p \in Procs :
        (/\ Returned(p)
         /\ frame[p].selected
         /\ ~DelimitedOf[frame[p].mid][frame[p].idx])
        => frame[p].err = "errMalformedSignature"

\* the operation caller p holds, if it holds one
Holds(p) == frame[p].verifier.live

\* C13: every Verify call works on an accumulator of its own: no two calls
\* that hold an operation at the same time hold the same accumulator, for
\* static and for resolved keys, and the bytes a call finalizes are exactly
\* the signing base of its own message.
C13_FreshOperation ==
    \A p \in Procs :
        Holds(p) =>
            /\ frame[p].verifier.acc \in DOMAIN accs
            /\ \A q \in Procs \ {p} :
                   Holds(q) => frame[q].verifier.acc # frame[p].verifier.acc
            /\ (pc[p] = "finalize" \/ trace[p].verified > 0)
                   => accs[frame[p].verifier.acc] = SelectedBase(p)

\* two calls for the same key id, over different messages, are about to
\* finalize at the same time
C13_Witness ==
    \E p \in Procs : \E q \in Procs \ {p} :
        /\ pc[p] = "finalize" /\ pc[q] = "finalize"
        /\ frame[p].params.keyID = frame[q].params.keyID
        /\ frame[p].verifier.key = frame[q].verifier.key
        /\ accs[frame[p].verifier.acc] # accs[frame[q].verifier.acc]

\* the candidate at which the selection loop of p's call stops: the first
\* that does not split or parse, or for which ResolveKey answered ok; past
\* the last one when there is none
StopAt(p) ==
    Min({i \in 1..Len(EntriesOf[frame[p].mid]) :
            \/ Len(EntriesOf[frame[p].mid][i].part) # 2
            \/ EntriesOf[frame[p].mid][i].params.err
            \/ (i <= Len(trace[p].results) /\ trace[p].results[i])}
        \cup {Len(EntriesOf[frame[p].mid]) + 1})

\* The first step of the verifier's state machine that fails for the message
\* of p's call, in the order of the steps, and its error; step 10 is the
\* return without error.  e is the entry the selection stops at, alg the
\* algorithm of the key entry, key its key, now the time of the expiry check.
FirstFailureAt(e, alg, key, now) ==
    IF Len(e.part) # 2 \/ e.params.err
    THEN [step |-> 2, err |-> "errMalformedSignature"]
    ELSE IF e.extractErr \/ e.signature = <<>>
    THEN [step |-> 4, err |-> "errMalformedSignature"]
    ELSE IF alg # "" /\ e.params.alg # "" /\ alg # e.params.alg
    THEN [step |-> 5, err |-> "errAlgMismatch"]
    ELSE IF ~e.decodes
    THEN [step |-> 6, err |-> "errMalformedSignature"]
    ELSE IF e.baseErr
    THEN [step |-> 7, err |-> "errComponent"]
    ELSE IF e.decoded # Sign(key, e.base)
    THEN [step |-> 8, err |-> "errInvalidSignature"]
    ELSE IF e.params.hasExpires /\ e.params.expires > now
    THEN [step |-> 9, err |-> "errSignatureExpired"]
    ELSE [step |-> 10, err |-> "nil"]

FirstFailure(p) ==
    IF \/ HeaderGet(MsgOf(p).Header, "Signature") = <<>>
       \/ HeaderGet(MsgOf(p).Header, "Signature-Input") = <<>>
    THEN [step |-> 1, err |-> "errNotSigned"]
    ELSE IF CountMismatch[frame[p].mid]
    THEN [step |-> 2, err |-> "errMalformedSignature"]
    ELSE IF StopAt(p) > Len(EntriesOf[frame[p].mid])
    THEN [step |-> 3, err |-> "errUnknownKey"]
    ELSE FirstFailureAt(EntriesOf[frame[p].mid][StopAt(p)],
                        IF EntriesOf[frame[p].mid][StopAt(p)].params.keyID \in DOMAIN keys
                        THEN keys[EntriesOf[frame[p].mid][StopAt(p)].params.keyID].alg
                        ELSE "",
                        frame[p].ver.key, trace[p].expiryAt)

\* C18: Verify reports the failure of the earliest failing step, in the
\* order of the steps, also when later steps would fail too, and runs no
\* step after it: the operation is constructed only when the first six
\* steps pass, asked only when the signing base was rebuilt, and the clock
\* is read only when the signature was accepted.
C18_FirstFailureInStepOrder ==
    \A p \in Procs :
        Returned(p) =>
            /\ frame[p].err = FirstFailure(p).err
            /\ trace[p].built = (IF FirstFailure(p).step >= 7 THEN 1 ELSE 0)
            /\ trace[p].verified = (IF FirstFailure(p).step >= 8 THEN 1 ELSE 0)
            /\ trace[p].expiryAt >= 0 <=> FirstFailure(p).step >= 9
            /\ frame[p].selected <=> FirstFailure(p).step >= 4

\* a call returned AlgMismatch for a message whose signature value is not
\* base64 either
C18_Witness ==
    \E p \in Procs :
        /\ Returned(p)
        /\ frame[p].err = "errAlgMismatch"
        /\ frame[p].selected
        /\ ~SelectedDecodes(p)

RECURSIVE LinesUpTo(_, _, _)
\* the canonical lines of the first n items, one per item, in the order of
\* the items
LinesUpTo(items, msg, n) ==
    IF n = 0 THEN <<>>
    ELSE LinesUpTo(items, msg, n - 1) \o CanonicalizeItem(items[n], msg).line

RECURSIVE LinesDownFrom(_, _, _)
\* the same lines in the opposite order, from item n to the last one
LinesDownFrom(items, msg, n) ==
    IF n > Len(items) THEN <<>>
    ELSE LinesDownFrom(items, msg, n + 1) \o CanonicalizeItem(items[n], msg).line

\* the trailer line for the raw Signature-Input value of a label
TrailerOf(raw) == <<DQ, "@signature-params", DQ, ":", " ">> \o raw

\* For each message and each part of its Signature-Input header that
\* parses: the lines of its items in their order, followed by the trailer,
\* and the same with the lines in the opposite order.
OrderedBaseOf ==
    [m \in MsgIds |->
        [i \in 1..Len(EntriesOf[m]) |->
            IF Len(EntriesOf[m][i].part) # 2 \/ EntriesOf[m][i].params.err THEN <<>>
            ELSE LinesUpTo(EntriesOf[m][i].params.items, Messages[m],
                           Len(EntriesOf[m][i].params.items))
                    \o TrailerOf(EntriesOf[m][i].part[2])]]
ReversedBaseOf ==
    [m \in MsgIds |->
        [i \in 1..Len(EntriesOf[m]) |->
            IF Len(EntriesOf[m][i].part) # 2 \/ EntriesOf[m][i].params.err THEN <<>>
            ELSE LinesDownFrom(EntriesOf[m][i].params.items, Messages[m], 1)
                    \o TrailerOf(EntriesOf[m][i].part[2])]]

\* the bytes p's call has written to its operation
Fed(p) == accs[frame[p].verifier.acc]

\* C19: the bytes Verify feeds to the verifying operation are the
\* canonical lines of the selected parameters' items, in the order of the
\* list, followed by one trailer line with the raw Signature-Input value of
\* the selected label; a signature made over another order of the lines is
\* rejected as InvalidSignature.
C19_OrderSensitive ==
    \A p \in Procs :
        (pc[p] = "finalize" \/ trace[p].verified > 0) =>
            /\ Fed(p) = OrderedBaseOf[frame[p].mid][frame[p].idx]
            /\ (/\ Returned(p)
                /\ SelectedDecodes(p)
                /\ SelectedDecoded(p)
                       # Sign(frame[p].ver.key, OrderedBaseOf[frame[p].mid][frame[p].idx]))
               => frame[p].err = "errInvalidSignature"

\* a call rejected a signature that the key made over the same lines in the
\* opposite order, with the same trailer
C19_Witness ==
    \E p \in Procs :
        /\ Returned(p)
        /\ frame[p].err = "errInvalidSignature"
        /\ SelectedDecodes(p)
        /\ ReversedBaseOf[frame[p].mid][frame[p].idx]
               # OrderedBaseOf[frame[p].mid][frame[p].idx]
        /\ SelectedDecoded(p)
               = Sign(frame[p].ver.key, ReversedBaseOf[frame[p].mid][frame[p].idx])

\* no step removes a key id from the store
EntriesKept == \A k \in DOMAIN keys : k \in DOMAIN keys'

\* the second lookup of a Verify call finds the entry of the selected key
\* id in the store, and no call invokes a nil factory
SecondLookupFinds ==
    \A p \in Procs :
        /\ frame[p].err # "panic"
        /\ (frame[p].op = "Verify" /\ frame[p].selected) =>
               /\ frame[p].params.keyID \in DOMAIN keys
               /\ keys[frame[p].params.keyID].key # NilKey
        /\ (frame[p].rkCtx = "second" /\ pc[p] = "rk_load") =>
               frame[p].rkId \in DOMAIN keys
        /\ pc[p] \in {"rk_resolve", "rk_store"} => frame[p].rkCtx # "second"
        /\ (frame[p].rkCtx = "second" /\ pc[p] # "rk_load") =>
               /\ frame[p].rkOk
               /\ ~trace[p].missed
               /\ frame[p].rkHolder.key # NilKey
        /\ Holds(p) => frame[p].verifier.key # NilKey

\* C20: key entries are never removed from the store, so the second
\* lookup of the selected key id in Verify always finds an entry with a
\* factory, under every interleaving with other calls, and Verify never
\* invokes a nil factory.
C20_EntriesNeverRemoved == []SecondLookupFinds /\ [][EntriesKept]_vars

\* a call has made its second lookup after another call, still under way,
\* stored an entry
C20_Witness ==
    \E p \in Procs : \E q \in Procs \ {p} :
        /\ frame[p].op = "Verify"
        /\ frame[p].rkCtx = "second"
        /\ pc[p] = "finalize"
        /\ trace[q].stored > 0
        /\ frame[q].rkId # frame[p].rkId

\* ------------------------------------------------------------------------
\* Properties of Verifier.Verify and of the middleware

\* Verifier.Verify has returned to caller p
Verified(p) == pc[p] = "verified"

\* the body of p's request does not match its Digest header
DigestMismatch(p) ==
    frame[p].digest # <<>> /\ frame[p].digest # DigestValue(frame[p].body)

\* C14: Verifier.Verify reports a body that does not match the Digest
\* header as a digest mismatch whatever the signature outcome is, and
\* otherwise reports the signature outcome unchanged.
C14_DigestIndependence ==
    \A p \in Procs :
        Verified(p) =>
            IF DigestMismatch(p) THEN frame[p].outErr = "digest mismatch"
            ELSE frame[p].outErr = frame[p].err

\* the middleware has answered p's request
Served(p) == pc[p] = "served"

\* C15: the middleware calls the wrapped handler exactly when
\* Verifier.Verify returned no error; on every error the handler is not
\* called and the response is 400 with one fixed body, whichever error it
\* was.
C15_Middleware ==
    \A p \in Procs :
        Served(p) =>
            /\ frame[p].handled <=> frame[p].outErr = "nil"
            /\ frame[p].outErr # "nil" =>
                   /\ frame[p].status = 400
                   /\ frame[p].written = "invalid required signature"
            /\ frame[p].handled => frame[p].status = 0 /\ frame[p].written = ""

\* a request whose signature verifies and whose body does not match its
\* Digest header was rejected
C15_Witness ==
    \E p \in Procs :
        /\ Served(p)
        /\ frame[p].err = "nil"
        /\ DigestMismatch(p)
        /\ frame[p].status = 400
        /\ ~frame[p].handled

\* ------------------------------------------------------------------------
\* Properties of NewSigner

\* the headers the caller specified: those of the last WithHeaders option,
\* read from the options
RECURSIVE LastHeaders(_)
LastHeaders(os) ==
    IF os = <<>> THEN <<>>
    ELSE IF os[Len(os)].kind = "WithHeaders" THEN os[Len(os)].hdr
    ELSE LastHeaders(SubSeq(os, 1, Len(os) - 1))

IsSpecialty(c) == c \in {"@method", "@path", "@query", "digest"}
IsHeader(c) == ~IsSpecialty(c)

\* C16: in the component list of a signer, @method, @path, @query and
\* digest all stand ahead of every user-specified header, and the
\* user-specified headers follow in the order they were given.
C16_SpecialtyFirst ==
    (signer.made /\ LastHeaders(opts) # <<>>) =>
        /\ \A c \in {"@method", "@path", "@query", "digest"} :
               sliceHas(signer.headers, c)
        /\ \A i \in 1..Len(signer.headers) : \A j \in 1..Len(signer.headers) :
               (IsSpecialty(signer.headers[i]) /\ IsHeader(signer.headers[j])) => i < j
        /\ SelectSeq(signer.headers, IsHeader) = SelectSeq(LastHeaders(opts), IsHeader)

\* C17: a signer made without headers signs the default headers
\* content-type, content-length and host.
C17_DefaultHeaders ==
    (signer.made /\ LastHeaders(opts) = <<>>) =>
        SelectSeq(signer.headers, IsHeader) = <<"content-type", "content-length", "host">>

=============================================================================
